---- MODULE Spec2Model ----
(***************************************************************************)
(* ncu-rs (src/src/main.rs): reconcile the version constraints declared in *)
(* a package.json against the registry's latest versions.                  *)
(*                                                                         *)
(* Strings the program manipulates character by character (version         *)
(* constraints, registry versions) are sequences of one-character strings. *)
(* Package names and JSON keys are never taken apart and stay TLA+ strings.*)
(* An IndexMap<String,String> is a sequence of <<key, value>> pairs with   *)
(* pairwise different keys.  An Option<T> is a sequence of length 0 or 1.  *)
(* A serde_json::Value is a record tagged by "kind".                       *)
(*                                                                         *)
(* main.rs leaves two things open: process_dependencies never puts the     *)
(* unit it creates at line 154 into `updates`, and main never binds the    *)
(* `updates` it iterates at line 85.  NewFutures and JoinUpdates fill them *)
(* in from spec.md sections 4.3 and 4.4.                                   *)
(***************************************************************************)
EXTENDS Integers, Sequences, FiniteSets, Bags, TLC

VARIABLES
    file,                 \* the manifest on disk: [readable, valid, json]
    file0,                \* the manifest on disk when the run began (history)
    writes,               \* number of fs::write calls that reached the disk
    should_update,        \* main: --update
    pc,                   \* main: position
    package_json,         \* main: the parsed serde_json::Value
    deps,                 \* main: IndexMap of "dependencies"
    dev_deps,             \* main: IndexMap of "devDependencies"
    deps0,                \* the two mappings as first parsed (history)
    futures,              \* process_dependencies: [dev -> sequence of units]
    pd_pc,                \* process_dependencies: [dev -> position]
    update_dest,          \* process_dependencies: [dev -> Vec<PackageUpdateData>]
    requests,             \* bag of <<dev, package_name>>: GETs sent
    warnings,             \* bag of [package_name, err]: line 191 printed
    updates,              \* main: the sequence line 85 iterates
    did_update_packages,  \* main: line 84
    awaited,              \* await_futures: [dev -> futures already awaited]
    overtaken,            \* [dev -> a unit resolved while an earlier one was pending] (history)
    printed,              \* main: the updates line 87 printed, in order
    message,              \* main: which of lines 111/116 was printed
    s_in,                 \* constraint model: the declared string
    p_pc,                 \* constraint model: position
    cmp_ver,              \* constraint model: line 168
    ver_prefix,           \* constraint model: line 169
    formatted             \* constraint model: line 183 applied to cmp_ver

mainVars == <<file, file0, overtaken, writes, should_update, pc, package_json, deps, dev_deps, deps0,
              futures, pd_pc, awaited, update_dest, requests, warnings, updates,
              did_update_packages, printed, message>>
parseVars == <<s_in, p_pc, cmp_ver, ver_prefix, formatted>>
vars == <<mainVars, parseVars>>

----------------------------------------------------------------------------
(* Bounds and input sets *)

MaxDeps == 2        \* entries of "dependencies"
MaxDevDeps == 1     \* entries of "devDependencies"
MaxLen == 3         \* length of a declared string given to the constraint model

DEP_KEY == "dependencies"
DEV_DEP_KEY == "devDependencies"

\* package names; a mapping holds a name once, so no group outgrows this set
Names == {"a", "b"}
Chars == {"^", "~", "1", "2"}
DepConstraints == {<<"^", "1">>, <<"2">>}      \* declared in "dependencies"
DevConstraints == {<<"~", "1">>, <<"2">>}      \* declared in "devDependencies"
Versions == {<<"1">>, <<"2">>}
FetchErrors == {"Timeout"}

RECURSIVE StringsOfLen(_)
StringsOfLen(n) ==
    IF n = 0 THEN {<<>>}
    ELSE {<<c>> \o t : c \in Chars, t \in StringsOfLen(n - 1)}

Strings(n) == UNION {StringsOfLen(k) : k \in 0..n}

----------------------------------------------------------------------------
(* Strings *)

\* str::replace(ch, ""): every occurrence of ch removed
RECURSIVE replace(_, _)
replace(s, ch) ==
    IF s = <<>> THEN <<>>
    ELSE IF Head(s) = ch THEN replace(Tail(s), ch)
    ELSE <<Head(s)>> \o replace(Tail(s), ch)

\* str::contains(ch)
contains(s, ch) == \E i \in 1..Len(s) : s[i] = ch

\* as CmpVer, only the caret removed
CmpVerCaretOnly(version) == replace(version, "^")

\* line 168
CmpVer(version) == replace(replace(version, "^"), "~")

\* as VerPrefix, the two tests in the other order
VerPrefixTildeFirst(version) ==
    IF contains(version, "~") THEN <<"~">>
    ELSE IF contains(version, "^") THEN <<"^">>
    ELSE <<>>

\* lines 169-175
VerPrefix(version) ==
    IF contains(version, "^") THEN <<"^">>
    ELSE IF contains(version, "~") THEN <<"~">>
    ELSE <<>>

\* line 183: format!("{}{}", ver_prefix, latest_version)
Format(prefix, latest_version) == prefix \o latest_version

----------------------------------------------------------------------------
(* IndexMap and serde_json::Value *)

Keys(m) == {m[i][1] : i \in 1..Len(m)}
HasKey(m, k) == \E i \in 1..Len(m) : m[i][1] = k
IndexOf(m, k) == CHOOSE i \in 1..Len(m) : m[i][1] = k
Get(m, k) == m[IndexOf(m, k)][2]

\* as insert, the key removed and put back last
insertMoveLast(m, k, v) ==
    LET Other(e) == e[1] # k
    IN  Append(SelectSeq(m, Other), <<k, v>>)

\* IndexMap::insert: an existing key keeps its position, a new key goes last
insert(m, k, v) ==
    IF HasKey(m, k)
    THEN [i \in 1..Len(m) |-> IF m[i][1] = k THEN <<k, v>> ELSE m[i]]
    ELSE Append(m, <<k, v>>)

Str(s) == [kind |-> "str", s |-> s]
Num(n) == [kind |-> "num", n |-> n]
Obj(m) == [kind |-> "obj", m |-> m]

\* Value::get(key): Some only on an object that has the key
ValueGet(v, k) ==
    IF v.kind = "obj" /\ HasKey(v.m, k) THEN <<Get(v.m, k)>> ELSE <<>>

\* as UnwrapGet, a missing field read as an empty object
UnwrapGetOrEmpty(v, k) ==
    IF ValueGet(v, k) = <<>> THEN <<Obj(<<>>)>> ELSE ValueGet(v, k)

\* lines 75-76: package_json.get(KEY), which main unwraps
UnwrapGet(v, k) == ValueGet(v, k)

\* serde_json::from_value::<IndexMap<String, String>>: Ok iff an object of strings
FromValueOk(v) ==
    /\ v.kind = "obj"
    /\ \A i \in 1..Len(v.m) : v.m[i][2].kind = "str"

FromValue(v) == [i \in 1..Len(v.m) |-> <<v.m[i][1], v.m[i][2].s>>]

\* serde_json::to_value(IndexMap<String, String>)
ToValue(m) == Obj([i \in 1..Len(m) |-> <<m[i][1], Str(m[i][2])>>])

\* Value::get_mut(key) followed by an assignment through the reference
SetField(v, k, new) ==
    Obj([i \in 1..Len(v.m) |-> IF v.m[i][1] = k THEN <<k, new>> ELSE v.m[i]])

\* as SetField, a missing key added to the object
SetOrAddField(v, k, new) ==
    IF v.kind # "obj" THEN v
    ELSE IF HasKey(v.m, k) THEN SetField(v, k, new)
    ELSE Obj(Append(v.m, <<k, new>>))

\* as insert_new_maps, the fields assigned by index
insert_new_maps_creating(pj, d, dd) ==
    [ok |-> TRUE,
     package_json |-> SetOrAddField(SetOrAddField(pj, DEP_KEY, ToValue(d)),
                                    DEV_DEP_KEY, ToValue(dd))]

\* as insert_new_maps, both fields given the runtime mapping
insert_new_maps_same(pj, d, dd) ==
    LET with_deps ==
            IF ValueGet(pj, DEP_KEY) # <<>>
            THEN SetField(pj, DEP_KEY, ToValue(d))
            ELSE pj
        with_both ==
            IF ValueGet(with_deps, DEV_DEP_KEY) # <<>>
            THEN SetField(with_deps, DEV_DEP_KEY, ToValue(d))
            ELSE with_deps
    IN  [ok |-> TRUE, package_json |-> with_both]

\* lines 213-226: each mapping replaces the field only where the field exists;
\* the Result is Ok, to_value of a map of strings having no way to fail
insert_new_maps(pj, d, dd) ==
    LET with_deps ==
            IF ValueGet(pj, DEP_KEY) # <<>>
            THEN SetField(pj, DEP_KEY, ToValue(d))
            ELSE pj
        with_both ==
            IF ValueGet(with_deps, DEV_DEP_KEY) # <<>>
            THEN SetField(with_deps, DEV_DEP_KEY, ToValue(dd))
            ELSE with_deps
    IN  [ok |-> TRUE, package_json |-> with_both]

----------------------------------------------------------------------------
(* Manifests the run may find on disk *)

RECURSIVE MapsOfLen(_, _)
MapsOfLen(n, cs) ==
    IF n = 0 THEN {<<>>}
    ELSE {Append(m, <<k, c>>) : m \in MapsOfLen(n - 1, cs), k \in Names, c \in cs}

UniqueKeys(m) == \A i, j \in 1..Len(m) : m[i][1] = m[j][1] => i = j

Maps(n, cs) == {m \in UNION {MapsOfLen(k, cs) : k \in 0..n} : UniqueKeys(m)}

NameField == <<"name", Str(<<"abc123">>)>>

Manifest(d, dd) ==
    Obj(<<NameField, <<DEP_KEY, ToValue(d)>>, <<DEV_DEP_KEY, ToValue(dd)>>>>)

GoodManifests ==
    {Manifest(d, dd) : d \in Maps(MaxDeps, DepConstraints),
                       dd \in Maps(MaxDevDeps, DevConstraints)}

SomeMap == <<<<"a", <<"^", "1">>>>>>

BadManifests ==
    { Obj(<<NameField, <<DEV_DEP_KEY, ToValue(SomeMap)>>>>),          \* no dependencies
      Obj(<<NameField, <<DEP_KEY, ToValue(SomeMap)>>>>),              \* no devDependencies
      Obj(<<NameField, <<DEP_KEY, Num(7)>>, <<DEV_DEP_KEY, ToValue(<<>>)>>>>),
      Obj(<<NameField, <<DEP_KEY, ToValue(SomeMap)>>,
            <<DEV_DEP_KEY, Obj(<<<<"b", Num(7)>>>>)>>>>),
      Num(7) }

Files ==
    {[readable |-> TRUE, valid |-> TRUE, json |-> j] : j \in GoodManifests \cup BadManifests}
    \cup {[readable |-> FALSE, valid |-> TRUE, json |-> Num(0)],
          [readable |-> TRUE, valid |-> FALSE, json |-> Num(0)]}

----------------------------------------------------------------------------
(* The registry and one lookup unit *)

Pending == [kind |-> "Pending"]
Ok(v) == [kind |-> "Ok", version |-> v]
Err(e) == [kind |-> "Err", err |-> e]

\* lines 199-210: what one GET may come back with
Responses == {Ok(v) : v \in Versions} \cup {Err(e) : e \in FetchErrors}

PackageUpdateData(package_name, old_version, new_version, dev) ==
    [package_name |-> package_name, old_version |-> old_version,
     new_version |-> new_version, dev |-> dev]

\* as compare_package_version, a failed lookup read as the empty version
compare_package_version_default(version, package_name, dev, resp) ==
    LET latest_version == IF resp.kind = "Ok" THEN resp.version ELSE <<>>
    IN  IF latest_version # CmpVer(version)
        THEN <<PackageUpdateData(package_name, version,
                                 Format(VerPrefix(version), latest_version), dev)>>
        ELSE <<>>

\* as compare_package_version, the new version without the prefix
compare_package_version_noprefix(version, package_name, dev, resp) ==
    IF resp.kind = "Ok" /\ resp.version # CmpVer(version)
    THEN <<PackageUpdateData(package_name, version, resp.version, dev)>>
    ELSE <<>>

\* as compare_package_version, the latest version compared with the declared string
compare_package_version_raw(version, package_name, dev, resp) ==
    IF resp.kind = "Ok" /\ resp.version # version
    THEN <<PackageUpdateData(package_name, version,
                             Format(VerPrefix(version), resp.version), dev)>>
    ELSE <<>>

\* as compare_package_version, the base version reported as the old version
compare_package_version_stripped(version, package_name, dev, resp) ==
    IF resp.kind = "Ok" /\ resp.version # CmpVer(version)
    THEN <<PackageUpdateData(package_name, CmpVer(version),
                             Format(VerPrefix(version), resp.version), dev)>>
    ELSE <<>>

\* lines 162-196: the Option the unit returns once get_package_version gave resp
compare_package_version(version, package_name, dev, resp) ==
    IF resp.kind = "Ok" /\ resp.version # CmpVer(version)
    THEN <<PackageUpdateData(package_name, version,
                             Format(VerPrefix(version), resp.version), dev)>>
    ELSE <<>>

\* line 191: the warning printed for a failed lookup, as a bag to add
Warning(package_name, resp) ==
    IF resp.kind = "Err"
    THEN SetToBag({[package_name |-> package_name, err |-> resp.err]})
    ELSE EmptyBag

Unit(package_name, version, dev) ==
    [package_name |-> package_name, version |-> version, dev |-> dev,
     resp |-> Pending, out |-> <<>>]

\* the vector of units process_dependencies awaits: one per entry, in the
\* mapping's order (spec.md 4.3; main.rs line 154 creates the unit and drops it)
NewFutures(m, dev) == [i \in 1..Len(m) |-> Unit(m[i][1], m[i][2], dev)]

\* the GETs the units of one group send
NewRequests(m, dev) ==
    IF m = <<>> THEN EmptyBag
    ELSE SetToBag({<<dev, m[i][1]>> : i \in 1..Len(m)})

\* as Collect, the update pushed twice
CollectTwice(updates_vec, val) ==
    IF val # <<>> THEN Append(Append(updates_vec, val[1]), val[1]) ELSE updates_vec

\* as Collect, the update put first
CollectFront(updates_vec, val) ==
    IF val # <<>> THEN <<val[1]>> \o updates_vec ELSE updates_vec

\* lines 136-138: push the update of a Some, ignore a None
Collect(updates_vec, val) == IF val # <<>> THEN Append(updates_vec, val[1]) ELSE updates_vec

\* the sequence main iterates at line 85: the runtime group's updates, then
\* the development group's (spec.md 4.4; main.rs never binds `updates`)
JoinUpdates(runtime, development) == runtime \o development

----------------------------------------------------------------------------
(* main, lines 45-127 *)

NoFutures == [dev \in BOOLEAN |-> <<>>]

Init ==
    /\ file \in Files
    /\ file0 = file
    /\ overtaken = [dev \in BOOLEAN |-> FALSE]
    /\ writes = 0
    /\ should_update \in BOOLEAN
    /\ pc = "read"
    /\ package_json = Num(0)
    /\ deps = <<>>
    /\ dev_deps = <<>>
    /\ deps0 = [dev \in BOOLEAN |-> <<>>]
    /\ futures = NoFutures
    /\ pd_pc = [dev \in BOOLEAN |-> "idle"]
    /\ awaited = [dev \in BOOLEAN |-> 0]
    /\ update_dest = NoFutures
    /\ requests = EmptyBag
    /\ warnings = EmptyBag
    /\ updates = <<>>
    /\ did_update_packages = FALSE
    /\ printed = <<>>
    /\ message = "none"
    /\ s_in = <<>>
    /\ p_pc = "off"
    /\ cmp_ver = <<>>
    /\ ver_prefix = <<>>
    /\ formatted = <<>>

\* line 72: fs::read_to_string(&path)?
ReadFile ==
    /\ pc = "read"
    /\ pc' = IF file.readable THEN "parse" ELSE "err"
    /\ UNCHANGED <<file, file0, overtaken, writes, should_update, package_json, deps, dev_deps, deps0,
                   futures, pd_pc, awaited, update_dest, requests, warnings, updates,
                   did_update_packages, printed, message, parseVars>>

\* line 73: serde_json::from_str(&package_file_contents)?
ParseJson ==
    /\ pc = "parse"
    /\ IF file.valid
       THEN package_json' = file.json /\ pc' = "get"
       ELSE package_json' = package_json /\ pc' = "err"
    /\ UNCHANGED <<file, file0, overtaken, writes, should_update, deps, dev_deps, deps0,
                   futures, pd_pc, awaited, update_dest, requests, warnings, updates,
                   did_update_packages, printed, message, parseVars>>

\* lines 75-76: package_json.get(KEY).unwrap(), twice
GetMaps ==
    /\ pc = "get"
    /\ pc' = IF UnwrapGet(package_json, DEP_KEY) = <<>>
                \/ UnwrapGet(package_json, DEV_DEP_KEY) = <<>>
             THEN "panic" ELSE "from_value"
    /\ UNCHANGED <<file, file0, overtaken, writes, should_update, package_json, deps, dev_deps, deps0,
                   futures, pd_pc, awaited, update_dest, requests, warnings, updates,
                   did_update_packages, printed, message, parseVars>>

\* lines 78-79: serde_json::from_value(...)?, twice
FromValues ==
    /\ pc = "from_value"
    /\ LET d == UnwrapGet(package_json, DEP_KEY)[1]
           dd == UnwrapGet(package_json, DEV_DEP_KEY)[1]
       IN  IF FromValueOk(d) /\ FromValueOk(dd)
           THEN /\ deps' = FromValue(d)
                /\ dev_deps' = FromValue(dd)
                /\ deps0' = [dev \in BOOLEAN |-> IF dev THEN FromValue(dd) ELSE FromValue(d)]
                /\ pc' = "process"
           ELSE /\ UNCHANGED <<deps, dev_deps, deps0>>
                /\ pc' = "err"
    /\ UNCHANGED <<file, file0, overtaken, writes, should_update, package_json,
                   futures, pd_pc, awaited, update_dest, requests, warnings, updates,
                   did_update_packages, printed, message, parseVars>>

\* lines 150-157 of one process_dependencies call: a unit per entry, each
\* sending its GET (lines 177, 202-205); the call then waits in await_futures,
\* which returns at once (lines 140, 159) when there is nothing to await
StartGroup(m, dev) ==
    /\ futures' = [futures EXCEPT ![dev] = NewFutures(m, dev)]
    /\ requests' = requests (+) NewRequests(m, dev)
    /\ pd_pc' = [pd_pc EXCEPT ![dev] = IF m = <<>> THEN "returned" ELSE "awaiting"]

\* line 81
ProcessDeps ==
    /\ pc = "process"
    /\ StartGroup(deps, FALSE)
    /\ pc' = "process_dev"
    /\ UNCHANGED <<file, file0, overtaken, writes, should_update, package_json, deps, dev_deps, deps0,
                   awaited, update_dest, warnings, updates,
                   did_update_packages, printed, message, parseVars>>

\* line 82
ProcessDevDeps ==
    /\ pc = "process_dev"
    /\ StartGroup(dev_deps, TRUE)
    /\ pc' = "join"
    /\ UNCHANGED <<file, file0, overtaken, writes, should_update, package_json, deps, dev_deps, deps0,
                   awaited, update_dest, warnings, updates,
                   did_update_packages, printed, message, parseVars>>

\* as Resolve, a failed GET sent again instead of reported
ResolveRetrying(dev, i) ==
    /\ i \in 1..Len(futures[dev])
    /\ futures[dev][i].resp = Pending
    /\ \E resp \in Responses :
         LET u == futures[dev][i]
         IN  IF resp.kind = "Err"
             THEN /\ requests' = requests (+) SetToBag({<<dev, u.package_name>>})
                  /\ UNCHANGED <<futures, warnings>>
             ELSE /\ futures' = [futures EXCEPT ![dev][i] =
                         [u EXCEPT !.resp = resp,
                                   !.out = compare_package_version(u.version, u.package_name,
                                                                   u.dev, resp)]]
                  /\ UNCHANGED <<requests, warnings>>
    /\ overtaken' = [overtaken EXCEPT ![dev] =
                        @ \/ \E j \in 1..(i - 1) : futures[dev][j].resp = Pending]
    /\ UNCHANGED <<file, file0, writes, should_update, pc, package_json, deps, dev_deps, deps0,
                   pd_pc, awaited, update_dest, updates,
                   did_update_packages, printed, message, parseVars>>

\* lines 177-195: the registry answers one unit, which returns its Option
Resolve(dev, i) ==
    /\ i \in 1..Len(futures[dev])
    /\ futures[dev][i].resp = Pending
    /\ \E resp \in Responses :
         LET u == futures[dev][i]
         IN  /\ futures' = [futures EXCEPT ![dev][i] =
                    [u EXCEPT !.resp = resp,
                              !.out = compare_package_version(u.version, u.package_name,
                                                              u.dev, resp)]]
             /\ warnings' = warnings (+) Warning(u.package_name, resp)
    /\ overtaken' = [overtaken EXCEPT ![dev] =
                        @ \/ \E j \in 1..(i - 1) : futures[dev][j].resp = Pending]
    /\ UNCHANGED <<file, file0, writes, should_update, pc, package_json, deps, dev_deps, deps0,
                   pd_pc, awaited, update_dest, requests, updates,
                   did_update_packages, printed, message, parseVars>>

\* as AwaitNext, the loop left at the first None
AwaitNextUntilNone(dev) ==
    /\ pd_pc[dev] = "awaiting"
    /\ awaited[dev] < Len(futures[dev])
    /\ LET u == futures[dev][awaited[dev] + 1]
       IN  /\ u.resp # Pending
           /\ update_dest' = [update_dest EXCEPT ![dev] = Collect(@, u.out)]
           /\ awaited' = [awaited EXCEPT ![dev] = IF u.out = <<>> THEN @ ELSE @ + 1]
           /\ pd_pc' = [pd_pc EXCEPT ![dev] =
                           IF u.out = <<>> \/ awaited[dev] + 1 = Len(futures[dev])
                           THEN "returned" ELSE @]
    /\ UNCHANGED <<file, file0, overtaken, writes, should_update, pc, package_json, deps, dev_deps, deps0,
                   futures, requests, warnings, updates,
                   did_update_packages, printed, message, parseVars>>

\* lines 134-139: one turn of the loop, taken once the awaited unit is ready;
\* after the last turn await_futures returns Ok (line 140) and
\* process_dependencies returns update_dest (line 159)
AwaitNext(dev) ==
    /\ pd_pc[dev] = "awaiting"
    /\ awaited[dev] < Len(futures[dev])
    /\ LET u == futures[dev][awaited[dev] + 1]
       IN  /\ u.resp # Pending
           /\ update_dest' = [update_dest EXCEPT ![dev] = Collect(@, u.out)]
    /\ awaited' = [awaited EXCEPT ![dev] = @ + 1]
    /\ pd_pc' = [pd_pc EXCEPT ![dev] =
                    IF awaited[dev] + 1 = Len(futures[dev]) THEN "returned" ELSE @]
    /\ UNCHANGED <<file, file0, overtaken, writes, should_update, pc, package_json, deps, dev_deps, deps0,
                   futures, requests, warnings, updates,
                   did_update_packages, printed, message, parseVars>>

\* between lines 82 and 85: both groups' results become `updates`
Join ==
    /\ pc = "join"
    /\ \A dev \in BOOLEAN : pd_pc[dev] = "returned"
    /\ updates' = JoinUpdates(update_dest[FALSE], update_dest[TRUE])
    /\ pc' = "loop"
    /\ UNCHANGED <<file, file0, overtaken, writes, should_update, package_json, deps, dev_deps, deps0,
                   futures, pd_pc, awaited, update_dest, requests, warnings,
                   did_update_packages, printed, message, parseVars>>

\* as Applied, the update given to whichever mapping has the name
AppliedByName(m, for_dev, update) ==
    IF should_update /\ HasKey(m, update.package_name)
    THEN insert(m, update.package_name, update.new_version)
    ELSE m

\* as Applied, whatever should_update says
AppliedAlways(m, for_dev, update) ==
    IF update.dev = for_dev
    THEN insert(m, update.package_name, update.new_version)
    ELSE m

\* lines 93-99: what one update makes of the mapping of group for_dev
Applied(m, for_dev, update) ==
    IF should_update /\ update.dev = for_dev
    THEN insert(m, update.package_name, update.new_version)
    ELSE m

\* lines 85-100: one turn of the loop over updates
ApplyUpdate ==
    /\ pc = "loop"
    /\ Len(printed) < Len(updates)
    /\ LET update == updates[Len(printed) + 1]
       IN  /\ did_update_packages' = TRUE
           /\ printed' = Append(printed, update)
           /\ dev_deps' = Applied(dev_deps, TRUE, update)
           /\ deps' = Applied(deps, FALSE, update)
    /\ UNCHANGED <<file, file0, overtaken, writes, should_update, pc, package_json, deps0,
                   futures, pd_pc, awaited, update_dest, requests, warnings, updates,
                   message, parseVars>>

\* as Report, the two messages exchanged
ReportSwapped(did_update) == IF did_update THEN "no_updates" ELSE "updated"

\* lines 110-117: the message for the value of did_update_packages
Report(did_update) == IF did_update THEN "updated" ELSE "no_updates"

\* as Finish, not waiting for the loop over updates to end
FinishInLoop ==
    /\ pc = "loop"
    /\ IF should_update
       THEN /\ package_json' = insert_new_maps(package_json, deps, dev_deps).package_json
            /\ \/ /\ file' = [file EXCEPT !.json = package_json']
                  /\ writes' = writes + 1
                  /\ message' = Report(did_update_packages)
                  /\ pc' = "done"
               \/ /\ file' = file
                  /\ writes' = writes
                  /\ message' = message
                  /\ pc' = "write_err"
       ELSE /\ UNCHANGED <<package_json, file, writes, message>>
            /\ pc' = "done"
    /\ UNCHANGED <<file0, overtaken, should_update, deps, dev_deps, deps0,
                   futures, pd_pc, awaited, update_dest, requests, warnings, updates,
                   did_update_packages, printed, parseVars>>

\* lines 103-126: merge, write and report in apply mode; then Ok(())
Finish ==
    /\ pc = "loop"
    /\ Len(printed) = Len(updates)
    /\ IF should_update
       THEN /\ package_json' = insert_new_maps(package_json, deps, dev_deps).package_json
            /\ \/ /\ file' = [file EXCEPT !.json = package_json']
                  /\ writes' = writes + 1
                  /\ message' = Report(did_update_packages)
                  /\ pc' = "done"
               \/ /\ file' = file                         \* fs::write(...)? is Err
                  /\ writes' = writes
                  /\ message' = message
                  /\ pc' = "write_err"
       ELSE /\ UNCHANGED <<package_json, file, writes, message>>
            /\ pc' = "done"
    /\ UNCHANGED <<file0, overtaken, should_update, deps, dev_deps, deps0,
                   futures, pd_pc, awaited, update_dest, requests, warnings, updates,
                   did_update_packages, printed, parseVars>>

Next ==
    \/ ReadFile
    \/ ParseJson
    \/ GetMaps
    \/ FromValues
    \/ ProcessDeps
    \/ ProcessDevDeps
    \/ \E dev \in BOOLEAN : \E i \in 1..(MaxDeps + MaxDevDeps) : Resolve(dev, i)
    \/ \E dev \in BOOLEAN : AwaitNext(dev)
    \/ Join
    \/ ApplyUpdate
    \/ Finish

Spec == Init /\ [][Next]_vars

----------------------------------------------------------------------------
(* The constraint model on its own: lines 168-175 and 183 on any string *)

InitParse ==
    /\ file = [readable |-> FALSE, valid |-> TRUE, json |-> Num(0)]
    /\ file0 = file
    /\ overtaken = [dev \in BOOLEAN |-> FALSE]
    /\ writes = 0
    /\ should_update = FALSE
    /\ pc = "off"
    /\ package_json = Num(0)
    /\ deps = <<>>
    /\ dev_deps = <<>>
    /\ deps0 = [dev \in BOOLEAN |-> <<>>]
    /\ futures = NoFutures
    /\ pd_pc = [dev \in BOOLEAN |-> "idle"]
    /\ awaited = [dev \in BOOLEAN |-> 0]
    /\ update_dest = NoFutures
    /\ requests = EmptyBag
    /\ warnings = EmptyBag
    /\ updates = <<>>
    /\ did_update_packages = FALSE
    /\ printed = <<>>
    /\ message = "none"
    /\ s_in \in Strings(MaxLen)
    /\ p_pc = "start"
    /\ cmp_ver = <<>>
    /\ ver_prefix = <<>>
    /\ formatted = <<>>

\* lines 168-175
ParseConstraint ==
    /\ p_pc = "start"
    /\ cmp_ver' = CmpVer(s_in)
    /\ ver_prefix' = VerPrefix(s_in)
    /\ p_pc' = "parsed"
    /\ UNCHANGED <<mainVars, s_in, formatted>>

\* line 183, given the base version back
FormatConstraint ==
    /\ p_pc = "parsed"
    /\ formatted' = Format(ver_prefix, cmp_ver)
    /\ p_pc' = "formatted"
    /\ UNCHANGED <<mainVars, s_in, cmp_ver, ver_prefix>>

NextParse == ParseConstraint \/ FormatConstraint

SpecParse == InitParse /\ [][NextParse]_vars

----------------------------------------------------------------------------
(* insert_new_maps on its own, as tests::test_insert_new_maps calls it *)

WithNameLast(d, dd) ==
    Obj(<<<<DEP_KEY, ToValue(d)>>, <<DEV_DEP_KEY, ToValue(dd)>>, NameField>>)

InsertManifests ==
    {Manifest(d, dd) : d \in Maps(1, DepConstraints), dd \in Maps(1, DevConstraints)}
    \cup {WithNameLast(SomeMap, dd) : dd \in Maps(1, DevConstraints)}
    \cup BadManifests

InitInsert ==
    /\ package_json \in InsertManifests
    /\ deps \in Maps(MaxDeps, DepConstraints)
    /\ dev_deps \in Maps(MaxDevDeps, DevConstraints)
    /\ file = [readable |-> TRUE, valid |-> TRUE, json |-> package_json]
    /\ file0 = file
    /\ overtaken = [dev \in BOOLEAN |-> FALSE]
    /\ writes = 0
    /\ should_update = TRUE
    /\ pc = "insert"
    /\ deps0 = [dev \in BOOLEAN |-> <<>>]
    /\ futures = NoFutures
    /\ pd_pc = [dev \in BOOLEAN |-> "idle"]
    /\ awaited = [dev \in BOOLEAN |-> 0]
    /\ update_dest = NoFutures
    /\ requests = EmptyBag
    /\ warnings = EmptyBag
    /\ updates = <<>>
    /\ did_update_packages = FALSE
    /\ printed = <<>>
    /\ message = "none"
    /\ s_in = <<>>
    /\ p_pc = "off"
    /\ cmp_ver = <<>>
    /\ ver_prefix = <<>>
    /\ formatted = <<>>

\* line 256: insert_new_maps(&mut package_json, deps, dev_deps)
InsertNewMaps ==
    /\ pc = "insert"
    /\ LET result == insert_new_maps(package_json, deps, dev_deps)
       IN  /\ package_json' = result.package_json
           /\ pc' = IF result.ok THEN "inserted" ELSE "insert_err"
    /\ UNCHANGED <<file, file0, overtaken, writes, should_update, deps, dev_deps, deps0,
                   futures, pd_pc, awaited, update_dest, requests, warnings, updates,
                   did_update_packages, printed, message, parseVars>>

NextInsert == InsertNewMaps

SpecInsert == InitInsert /\ [][NextInsert]_vars

----------------------------------------------------------------------------
(* One group on its own, as tests::test_process_dependencies_and_await_futures
   runs it: process_dependencies, then await_futures to the end *)

InitBatch ==
    /\ deps \in Maps(MaxDeps, DepConstraints)
    /\ dev_deps \in Maps(MaxDevDeps, DevConstraints)
    /\ deps0 = [dev \in BOOLEAN |-> IF dev THEN dev_deps ELSE deps]
    /\ file = [readable |-> TRUE, valid |-> TRUE, json |-> Manifest(deps, dev_deps)]
    /\ file0 = file
    /\ package_json = file.json
    /\ overtaken = [dev \in BOOLEAN |-> FALSE]
    /\ writes = 0
    /\ should_update = FALSE
    /\ pc = "batch"
    /\ futures = NoFutures
    /\ pd_pc = [dev \in BOOLEAN |-> "idle"]
    /\ awaited = [dev \in BOOLEAN |-> 0]
    /\ update_dest = NoFutures
    /\ requests = EmptyBag
    /\ warnings = EmptyBag
    /\ updates = <<>>
    /\ did_update_packages = FALSE
    /\ printed = <<>>
    /\ message = "none"
    /\ s_in = <<>>
    /\ p_pc = "off"
    /\ cmp_ver = <<>>
    /\ ver_prefix = <<>>
    /\ formatted = <<>>

\* line 298: process_dependencies(&client, &deps, dev) for one of the groups
StartBatch(dev) ==
    /\ pc = "batch"
    /\ StartGroup(IF dev THEN dev_deps ELSE deps, dev)
    /\ pc' = "batch_started"
    /\ UNCHANGED <<file, file0, overtaken, writes, should_update, package_json, deps, dev_deps, deps0,
                   awaited, update_dest, warnings, updates,
                   did_update_packages, printed, message, parseVars>>

NextBatch ==
    \/ \E dev \in BOOLEAN : StartBatch(dev)
    \/ \E dev \in BOOLEAN : \E i \in 1..(MaxDeps + MaxDevDeps) : Resolve(dev, i)
    \/ \E dev \in BOOLEAN : AwaitNext(dev)

\* the runtime keeps polling await_futures, and every request ends after at
\* most the client's timeout (make_client, lines 37-42)
FairnessBatch ==
    /\ \A dev \in BOOLEAN : WF_vars(AwaitNext(dev))
    /\ \A dev \in BOOLEAN : \A i \in 1..(MaxDeps + MaxDevDeps) : WF_vars(Resolve(dev, i))

SpecBatch == InitBatch /\ [][NextBatch]_vars /\ FairnessBatch

----------------------------------------------------------------------------
(* One group cancelled by its caller (spec.md 5): the future that
   process_dependencies returned is dropped while it is suspended in
   await_futures (line 157, at line 135), and with it every unit it owns.
   A dropped future runs no further code: a unit suspended at line 177
   reaches neither arm of the match at lines 178-192. *)

Cancelled == [kind |-> "Cancelled"]

CancelGroup(dev) ==
    /\ pd_pc[dev] = "awaiting"
    /\ \E i \in 1..Len(futures[dev]) : futures[dev][i].resp = Pending
    /\ futures' = [futures EXCEPT ![dev] =
                     [i \in 1..Len(@) |->
                        IF @[i].resp = Pending THEN [@[i] EXCEPT !.resp = Cancelled]
                        ELSE @[i]]]
    /\ pd_pc' = [pd_pc EXCEPT ![dev] = "cancelled"]
    /\ UNCHANGED <<file, file0, overtaken, writes, should_update, pc, package_json, deps, dev_deps, deps0,
                   awaited, update_dest, requests, warnings, updates,
                   did_update_packages, printed, message, parseVars>>

NextCancel ==
    \/ \E dev \in BOOLEAN : StartBatch(dev)
    \/ \E dev \in BOOLEAN : \E i \in 1..(MaxDeps + MaxDevDeps) : Resolve(dev, i)
    \/ \E dev \in BOOLEAN : AwaitNext(dev)
    \/ \E dev \in BOOLEAN : CancelGroup(dev)

SpecCancel == InitBatch /\ [][NextCancel]_vars

----------------------------------------------------------------------------
(* Vocabulary of the properties *)

Markers == {"^", "~"}
IsMarker(c) == c \in Markers
NotMarker(c) == c \notin Markers

\* spec.md 4.1: the declared string without its markers, and its prefix
BaseVersion(declared) == SelectSeq(declared, NotMarker)
Prefix(declared) ==
    IF \E i \in 1..Len(declared) : declared[i] = "^" THEN <<"^">>
    ELSE IF \E i \in 1..Len(declared) : declared[i] = "~" THEN <<"~">>
    ELSE <<>>

MapOf(dev) == IF dev THEN dev_deps ELSE deps
UnitsOf(dev) == {futures[dev][i] : i \in 1..Len(futures[dev])}
Failed(u) == u.resp.kind = "Err"
Differs(u) == u.resp.kind = "Ok" /\ u.resp.version # BaseVersion(u.version)
UpToDate(u) == u.resp.kind = "Ok" /\ u.resp.version = BaseVersion(u.version)
NamesOf(ds) == [j \in 1..Len(ds) |-> ds[j].package_name]
Naming(ds, name, dev) ==
    {j \in 1..Len(ds) : ds[j].package_name = name /\ ds[j].dev = dev}

AfterParse == {"process", "process_dev", "join", "loop", "done", "write_err"}
Reported == {"loop", "done", "write_err"}

----------------------------------------------------------------------------
(* C1 *)

ExactlyOneFails(dev) ==
    Cardinality({i \in 1..Len(futures[dev]) : Failed(futures[dev][i])}) = 1

FailedEntries(name, err) ==
    {<<dev, i>> \in BOOLEAN \X (1..(MaxDeps + MaxDevDeps)) :
        /\ i <= Len(futures[dev])
        /\ futures[dev][i].package_name = name
        /\ futures[dev][i].resp = Err(err)}

\* C1: when a group in which exactly one lookup failed has been collected, its
\* decisions are those of the entries whose latest version differs from their
\* base version, in order, none of them for the failed entry; every failed
\* entry has printed one warning naming its package; and main has not aborted
\* (a manifest that cannot be written, lines 107-108, is not a lookup's doing).
C1_FailureIsolation ==
    \A dev \in BOOLEAN :
        (pd_pc[dev] = "returned" /\ ExactlyOneFails(dev)) =>
            /\ NamesOf(update_dest[dev]) = NamesOf(SelectSeq(futures[dev], Differs))
            /\ \A u \in UnitsOf(dev) :
                 Failed(u) => Naming(update_dest[dev], u.package_name, dev) = {}
            /\ \A name \in Names : \A err \in FetchErrors :
                 CopiesIn([package_name |-> name, err |-> err], warnings)
                    = Cardinality(FailedEntries(name, err))
            /\ pc \notin {"err", "panic"}

C1_Witness ==
    /\ pc = "done"
    /\ pd_pc[FALSE] = "returned"
    /\ ExactlyOneFails(FALSE)
    /\ Len(futures[FALSE]) = 2
    /\ Len(update_dest[FALSE]) = 1
    /\ BagCardinality(warnings) = 1

----------------------------------------------------------------------------
(* C2 *)

\* C2: once a group is collected, every entry whose lookup gave a latest
\* version different from its base version has exactly one decision in the
\* group's result, and later in main's updates: old_version is the declared
\* constraint, new_version the prefix followed by the latest version.
C2_OneDecisionWhenDifferent ==
    \A dev \in BOOLEAN :
        pd_pc[dev] = "returned" =>
            \A u \in UnitsOf(dev) :
                Differs(u) =>
                    LET expected ==
                            [package_name |-> u.package_name,
                             old_version |-> Get(deps0[dev], u.package_name),
                             new_version |-> Prefix(Get(deps0[dev], u.package_name))
                                                \o u.resp.version,
                             dev |-> dev]
                        ds == Naming(update_dest[dev], u.package_name, dev)
                        us == Naming(updates, u.package_name, dev)
                    IN  /\ Cardinality(ds) = 1
                        /\ \A j \in ds : update_dest[dev][j] = expected
                        /\ pc \in Reported =>
                             /\ Cardinality(us) = 1
                             /\ \A j \in us : updates[j] = expected

\* a collected group with a decision towards an older version after a prefix
\* was kept: "2" declared, "1" latest
C2_Witness ==
    /\ pc = "done"
    /\ \E u \in UnitsOf(FALSE) :
         /\ Differs(u)
         /\ u.version = <<"2">>
         /\ u.resp.version = <<"1">>
    /\ \E u \in UnitsOf(FALSE) :
         /\ Differs(u)
         /\ u.version = <<"^", "1">>
         /\ \E j \in 1..Len(updates) : updates[j].new_version = <<"^", "2">>

----------------------------------------------------------------------------
(* C3 *)

\* C3: an entry whose lookup gave exactly its base version has no decision,
\* neither in its group's result nor in main's updates nor among the printed ones.
C3_NoDecisionWhenEqual ==
    \A dev \in BOOLEAN :
        \A u \in UnitsOf(dev) :
            UpToDate(u) =>
                /\ Naming(update_dest[dev], u.package_name, dev) = {}
                /\ Naming(updates, u.package_name, dev) = {}
                /\ Naming(printed, u.package_name, dev) = {}

C3_Witness ==
    /\ pc = "done"
    /\ \E u \in UnitsOf(FALSE) : UpToDate(u) /\ u.version = <<"^", "1">>
    /\ \E u \in UnitsOf(TRUE) : UpToDate(u) /\ u.version = <<"~", "1">>
    /\ updates # <<>>

----------------------------------------------------------------------------
(* C4 *)

InMappingOrder(ds, m) ==
    \A j, k \in 1..Len(ds) :
        j < k => IndexOf(m, ds[j].package_name) < IndexOf(m, ds[k].package_name)

RuntimeFirst(ds) ==
    \A j, k \in 1..Len(ds) : j < k => ~(ds[j].dev /\ ~ds[k].dev)

----------------------------------------------------------------------------
(* C5 *)

Field(v, k) == ValueGet(v, k)

\* every key of m0 is a key of m, every key whose value differs is named by a
\* printed decision of the group, and so is every key m has beyond m0
OnlyNamedChanged(m0, m, dev) ==
    /\ \A k \in Keys(m0) :
         /\ HasKey(m, k)
         /\ Get(m, k) # Get(m0, k) => Naming(printed, k, dev) # {}
    /\ \A k \in Keys(m) \ Keys(m0) : Naming(printed, k, dev) # {}

MappingIn(v, dev) == FromValue(Field(v, IF dev THEN DEV_DEP_KEY ELSE DEP_KEY)[1])

\* C5: with apply mode off the two mappings, the parsed manifest and the file
\* stay as they were on entry; with apply mode on, in the mappings and in the
\* manifest's two objects only keys named by a printed decision have another
\* value, and the manifest's name field is the one read.
C5_Frame ==
    pc \in AfterParse =>
        /\ ~should_update =>
             /\ deps = deps0[FALSE]
             /\ dev_deps = deps0[TRUE]
             /\ package_json = file0.json
             /\ file = file0
        /\ should_update =>
             /\ \A dev \in BOOLEAN :
                  /\ OnlyNamedChanged(deps0[dev], MapOf(dev), dev)
                  /\ OnlyNamedChanged(deps0[dev], MappingIn(package_json, dev), dev)
                  /\ OnlyNamedChanged(deps0[dev], MappingIn(file.json, dev), dev)
             /\ Field(package_json, "name") = Field(file0.json, "name")
             /\ Field(file.json, "name") = Field(file0.json, "name")
             /\ Len(package_json.m) = Len(file0.json.m)
             /\ Len(file.json.m) = Len(file0.json.m)

\* apply mode rewrote one of two runtime entries and left the other
C5_Witness ==
    /\ pc = "done"
    /\ should_update
    /\ Len(deps) = 2
    /\ deps[1] # deps0[FALSE][1]
    /\ deps[2] = deps0[FALSE][2]
    /\ file # file0
    /\ MappingIn(file.json, FALSE) = deps

----------------------------------------------------------------------------
(* C6 *)

AllUpToDate ==
    /\ \E dev \in BOOLEAN : futures[dev] # <<>>
    /\ \A dev \in BOOLEAN : \A u \in UnitsOf(dev) : UpToDate(u)

\* C6: a finished run in which every lookup gave the declared base version
\* has an empty report, has did_update_packages false (in apply mode the "no
\* updates found" message is the one printed), and has not written the file.
C6_NoRewriteWhenUpToDate ==
    (pc = "done" /\ AllUpToDate) =>
        /\ updates = <<>>
        /\ ~did_update_packages
        /\ should_update => message = "no_updates"
        /\ writes = 0

----------------------------------------------------------------------------
(* C7 *)

LeadingMarkerOnly(s) == \A i \in 2..Len(s) : ~IsMarker(s[i])

\* C7: a declared string whose only marker, if any, is its first character
\* comes back from format(parse) as it was.
C7_RoundTrip ==
    (p_pc = "formatted" /\ LeadingMarkerOnly(s_in)) => formatted = s_in

C7_Witness ==
    /\ p_pc = "formatted"
    /\ LeadingMarkerOnly(s_in)
    /\ Len(s_in) = 3
    /\ s_in[1] = "~"
    /\ ver_prefix = <<"~">>
    /\ formatted = s_in

----------------------------------------------------------------------------
(* C8 *)

HasBothMaps(v) == Field(v, DEP_KEY) # <<>> /\ Field(v, DEV_DEP_KEY) # <<>>

\* C8: insert_new_maps returns Ok; on a manifest with both dependency fields
\* those fields then hold exactly the two mappings given, and every other
\* top-level field is where it was with the value it had.
C8_InsertNewMaps ==
    /\ pc # "insert_err"
    /\ (pc = "inserted" /\ HasBothMaps(file0.json)) =>
         /\ FromValueOk(Field(package_json, DEP_KEY)[1])
         /\ FromValueOk(Field(package_json, DEV_DEP_KEY)[1])
         /\ MappingIn(package_json, FALSE) = deps
         /\ MappingIn(package_json, TRUE) = dev_deps
         /\ Len(package_json.m) = Len(file0.json.m)
         /\ \A i \in 1..Len(file0.json.m) :
              /\ package_json.m[i][1] = file0.json.m[i][1]
              /\ package_json.m[i][1] \notin {DEP_KEY, DEV_DEP_KEY}
                    => package_json.m[i] = file0.json.m[i]

C8_Witness ==
    /\ pc = "inserted"
    /\ HasBothMaps(file0.json)
    /\ Field(package_json, "name") = <<Str(<<"abc123">>)>>
    /\ Len(deps) = 2
    /\ Len(dev_deps) = 1
    /\ FromValueOk(Field(file0.json, DEP_KEY)[1])
    /\ MappingIn(file0.json, FALSE) # deps
    /\ MappingIn(package_json, FALSE) = deps
    /\ MappingIn(package_json, TRUE) = dev_deps

----------------------------------------------------------------------------
(* C9 *)

ManifestUsable ==
    /\ file0.readable
    /\ file0.valid
    /\ Field(file0.json, DEP_KEY) # <<>>

BeforeLookups == {"read", "parse", "get", "from_value", "process"}

\* C9: with a manifest that cannot be read, is no JSON or has no dependencies
\* field, main gets no further than its error exit and sends no request; and
\* whenever a request has been sent, the manifest was read and both mappings
\* were parsed from it.
C9_NoLookupBeforeParse ==
    /\ ~ManifestUsable =>
         /\ pc \in {"read", "parse", "get", "err", "panic"}
         /\ requests = EmptyBag
    /\ pc \in BeforeLookups \cup {"err", "panic"} => requests = EmptyBag
    /\ requests # EmptyBag =>
         /\ ManifestUsable
         /\ Field(file0.json, DEV_DEP_KEY) # <<>>
         /\ FromValueOk(Field(file0.json, DEP_KEY)[1])
         /\ FromValueOk(Field(file0.json, DEV_DEP_KEY)[1])
         /\ \A dev \in BOOLEAN : deps0[dev] = MappingIn(file0.json, dev)

\* the manifest has no dependencies field and main has panicked at line 75
C9_Witness ==
    /\ pc = "panic"
    /\ file0.readable
    /\ file0.valid
    /\ file0.json.kind = "obj"
    /\ Field(file0.json, DEP_KEY) = <<>>
    /\ Field(file0.json, DEV_DEP_KEY) # <<>>
    /\ requests = EmptyBag

----------------------------------------------------------------------------
(* C10 *)

----------------------------------------------------------------------------
(* C11 *)

AllCollected(dev) ==
    /\ pd_pc[dev] = "returned"
    /\ awaited[dev] = Len(futures[dev])
    /\ \A u \in UnitsOf(dev) : u.resp # Pending

\* every pending unit can take its answer now, whatever the other units are doing
NoUnitWaits ==
    \A dev \in BOOLEAN : \A i \in 1..(MaxDeps + MaxDevDeps) :
        (i <= Len(futures[dev]) /\ futures[dev][i].resp = Pending)
            => ENABLED Resolve(dev, i)

----------------------------------------------------------------------------
(* C12 *)

WarningsNaming(name) ==
    {w \in BagToSet(warnings) : w.package_name = name}

\* C12: a unit whose request was in flight when its group was cancelled has
\* no decision in the group's result and a warning naming its package, and
\* the run is in no error state.
C12_CancelLikeTimeout ==
    \A dev \in BOOLEAN : \A u \in UnitsOf(dev) :
        u.resp = Cancelled =>
            /\ Naming(update_dest[dev], u.package_name, dev) = {}
            /\ WarningsNaming(u.package_name) # {}
            /\ pc \notin {"err", "panic"}

----------------------------------------------------------------------------
(* C13 *)

OneUnitPerEntry(dev) ==
    /\ Len(futures[dev]) = Len(deps0[dev])
    /\ \A i \in 1..Len(futures[dev]) :
          /\ futures[dev][i].package_name = deps0[dev][i][1]
          /\ futures[dev][i].version = deps0[dev][i][2]
          /\ futures[dev][i].dev = dev

CollectedAreOfMapping(dev) ==
    \A j \in 1..Len(update_dest[dev]) :
        LET d == update_dest[dev][j] IN
        /\ HasKey(deps0[dev], d.package_name)
        /\ d.old_version = Get(deps0[dev], d.package_name)
        /\ d.new_version # d.old_version

----------------------------------------------------------------------------
(* C14 *)

\* C14: parsing is total: every string, the empty one included, is parsed;
\* the base version is the string with every ^ and ~ removed, and the prefix
\* is ^ when a ^ occurs anywhere, else ~ when a ~ occurs, else empty.
C14_ParseTotal ==
    /\ p_pc = "start" => ENABLED ParseConstraint
    /\ p_pc \in {"parsed", "formatted"} =>
          /\ cmp_ver = BaseVersion(s_in)
          /\ ver_prefix = Prefix(s_in)

C14_Witness ==
    /\ p_pc = "parsed"
    /\ s_in = <<"~", "^", "1">>
    /\ cmp_ver = <<"1">>
    /\ ver_prefix = <<"^">>

C14_WitnessEmpty ==
    /\ p_pc = "parsed"
    /\ s_in = <<>>
    /\ cmp_ver = <<>>
    /\ ver_prefix = <<>>

----------------------------------------------------------------------------
(* C15 *)

Sent(dev, name) == CopiesIn(<<dev, name>>, requests)

----------------------------------------------------------------------------
(* C16 *)

Resolved(dev) == {i \in 1..Len(futures[dev]) : futures[dev][i].resp # Pending}
CountOf(dev, P(_)) == Cardinality({i \in 1..Len(futures[dev]) : P(futures[dev][i])})
IsPrefixOf(s, r) == Len(s) <= Len(r) /\ SubSeq(r, 1, Len(s)) = s

\* what is collected stays as it is
OutcomesStable ==
    /\ \A dev \in BOOLEAN : \A i \in Resolved(dev) :
          /\ i <= Len(futures'[dev])
          /\ futures'[dev][i] = futures[dev][i]
    /\ \A dev \in BOOLEAN : IsPrefixOf(update_dest[dev], update_dest'[dev])
    /\ warnings \sqsubseteq warnings'

\* one outcome per entry of a returned group
OutcomesPartition ==
    /\ \A dev \in BOOLEAN :
          pd_pc[dev] = "returned" =>
             /\ \A name \in Names : Cardinality(Naming(update_dest[dev], name, dev)) <= 1
             /\ \A j \in 1..Len(update_dest[dev]) : update_dest[dev][j].dev = dev
             /\ Len(update_dest[dev]) + CountOf(dev, Failed) + CountOf(dev, UpToDate)
                   = Len(deps0[dev])
    /\ (\A dev \in BOOLEAN : pd_pc[dev] = "returned") =>
          Len(update_dest[FALSE]) + Len(update_dest[TRUE]) + BagCardinality(warnings)
             + CountOf(FALSE, UpToDate) + CountOf(TRUE, UpToDate)
             = Len(deps0[FALSE]) + Len(deps0[TRUE])

----------------------------------------------------------------------------
(* C17 *)

KeySeq(m) == [i \in 1..Len(m) |-> m[i][1]]

\* C17: from the moment the two mappings are read, each has the key sequence
\* it was read with, whatever has been applied to it, and so has each
\* dependency object of a manifest that was written.
C17_KeysKept ==
    /\ pc \in AfterParse =>
          \A dev \in BOOLEAN : KeySeq(MapOf(dev)) = KeySeq(deps0[dev])
    /\ writes > 0 =>
          \A dev \in BOOLEAN : KeySeq(MappingIn(file.json, dev)) = KeySeq(deps0[dev])

C17_Witness ==
    /\ pc = "done"
    /\ should_update
    /\ writes = 1
    /\ Len(deps) = 2
    /\ deps[1][2] # deps0[FALSE][1][2]
    /\ deps[2] = deps0[FALSE][2]
    /\ KeySeq(MappingIn(file.json, FALSE)) = KeySeq(deps0[FALSE])

----------------------------------------------------------------------------
(* C18 *)

\* C18: an entry of a group has another constraint than the one read only
\* if a decision of that same group names it; a decision of the other group
\* for the same name leaves it as it was.
C18_OwnGroupOnly ==
    pc \in AfterParse =>
        \A dev \in BOOLEAN : \A k \in Keys(deps0[dev]) :
            (HasKey(MapOf(dev), k) /\ Get(MapOf(dev), k) # Get(deps0[dev], k))
                => Naming(updates, k, dev) # {}

C18_Witness ==
    /\ pc = "done"
    /\ should_update
    /\ HasKey(deps0[FALSE], "a")
    /\ HasKey(deps0[TRUE], "a")
    /\ Naming(updates, "a", FALSE) # {}
    /\ Naming(updates, "a", TRUE) = {}
    /\ Get(deps, "a") # Get(deps0[FALSE], "a")
    /\ Get(dev_deps, "a") = Get(deps0[TRUE], "a")

----------------------------------------------------------------------------
(* C19 *)

AllLookupsOver ==
    \A dev \in BOOLEAN :
        /\ pd_pc[dev] = "returned"
        /\ Len(futures[dev]) = Len(deps0[dev])
        /\ \A u \in UnitsOf(dev) : u.resp # Pending

AllDecisionsWritten ==
    /\ updates = JoinUpdates(update_dest[FALSE], update_dest[TRUE])
    /\ Len(printed) = Len(updates)
    /\ \A j \in 1..Len(updates) :
          Get(MappingIn(file.json, updates[j].dev), updates[j].package_name)
             = updates[j].new_version

\* C19: the file is written at most once; without apply mode it is never
\* written and stays as read; when it has been written, apply mode is on,
\* no lookup of either group is pending, every group has returned, and every
\* decision of the report is in the manifest written.
C19_WriteOnceAtEnd ==
    /\ writes <= 1
    /\ writes = 0 => file = file0
    /\ ~should_update => writes = 0
    /\ writes = 1 =>
          /\ should_update
          /\ pc = "done"
          /\ AllLookupsOver
          /\ AllDecisionsWritten

C19_Witness ==
    /\ writes = 1
    /\ file # file0
    /\ Len(updates) = 2
    /\ \E u \in UnitsOf(FALSE) : Failed(u)
    /\ overtaken[FALSE]

----------------------------------------------------------------------------
(* C20 *)

TopLevelKeys(v) == IF v.kind = "obj" THEN KeySeq(v.m) ELSE <<>>

\* C20: insert_new_maps returns Ok and leaves the manifest with the top-level
\* keys it had, in their places: a dependency field that is missing is still
\* missing, and a manifest that is no object is untouched.
C20_NoKeyCreated ==
    /\ pc # "insert_err"
    /\ pc = "inserted" =>
          /\ TopLevelKeys(package_json) = TopLevelKeys(file0.json)
          /\ \A k \in {DEP_KEY, DEV_DEP_KEY} :
                Field(file0.json, k) = <<>> => Field(package_json, k) = <<>>
          /\ file0.json.kind # "obj" => package_json = file0.json

C20_Witness ==
    /\ pc = "inserted"
    /\ file0.json.kind = "obj"
    /\ Field(file0.json, DEP_KEY) = <<>>
    /\ Field(package_json, DEP_KEY) = <<>>
    /\ Len(deps) = 2
    /\ Field(package_json, DEV_DEP_KEY) = <<ToValue(dev_deps)>>
    /\ Field(package_json, DEV_DEP_KEY) # Field(file0.json, DEV_DEP_KEY)

====
